---------------------------- MODULE Spec2Model ----------------------------
(***************************************************************************)
(* Model of the news proxy server of src/index.js: the /health and         *)
(* /summarize handlers, the /api/news relay and the root endpoint, the     *)
(* summary cache (node-cache, stdTTL one hour),                            *)
(* the /summarize rate limiter (express-rate-limit, 50 per 15 minutes)     *)
(* and the helpers extractMainText, summarizeWithHF and fallbackSummary.   *)
(*                                                                         *)
(* Text is a sequence of one-character strings, so that String.length,     *)
(* the regular expressions and substring are computed character by         *)
(* character.  Error messages and the fixed JSON messages, which the code  *)
(* never measures or splits, are TLA+ strings.                             *)
(***************************************************************************)
EXTENDS Integers, Sequences, FiniteSets, TLC

(***************************************************************************)
(* Characters and the character classes the regular expressions use.       *)
(***************************************************************************)
LowerSeq ==
    <<"a", "b", "c", "d", "e", "f", "g", "h", "i", "j", "k", "l", "m", "n",
      "o", "p", "q", "r", "s", "t", "u", "v", "w", "x", "y", "z">>

UpperSeq ==
    <<"A", "B", "C", "D", "E", "F", "G", "H", "I", "J", "K", "L", "M", "N",
      "O", "P", "Q", "R", "S", "T", "U", "V", "W", "X", "Y", "Z">>

Range(s) == {s[i] : i \in DOMAIN s}

\* [a-z], [A-Z] and \w of the patterns of lines 145, 146 and 191
Lower == Range(LowerSeq)

Upper == Range(UpperSeq)

Digit == {"0", "1", "2", "3", "4", "5", "6", "7", "8", "9"}

WordChar == Lower \cup Upper \cup Digit \cup {"_"}

\* \s (the ASCII part of it)
WhiteSpace == {" ", "\t", "\n", "\r"}

\* what "." of a pattern does not match
LineTerminator == {"\n", "\r"}

\* the i flag: compare letters without regard to case
ToLower(c) ==
    IF c \in Upper
    THEN LowerSeq[CHOOSE i \in DOMAIN UpperSeq : UpperSeq[i] = c]
    ELSE c

\* the literal w (given in lower case) occurs in s at position i, case ignored
MatchAt(s, i, w) ==
    /\ i >= 1
    /\ i + Len(w) - 1 <= Len(s)
    /\ \A k \in 1..Len(w) : ToLower(s[i + k - 1]) = w[k]

\* the least element of a set of positions, or 0 when there is none: where
\* a scan from the left stops first
Least(S) == IF S = {} THEN 0 ELSE CHOOSE x \in S : \A y \in S : x <= y

\* the least j >= from at which the literal w occurs, or 0
FirstMatch(s, from, w) == Least({j \in from..Len(s) : MatchAt(s, j, w)})

\* the least j >= from with s[j] = c, or 0
FirstChar(s, from, c) == Least({j \in from..Len(s) : s[j] = c})

(***************************************************************************)
(* extractMainText, lines 143-151.                                         *)
(*                                                                         *)
(* The script and style patterns of lines 145 and 146 match at i when      *)
(* "<tag" stands at i followed by a word boundary.  The character classes  *)
(* and the guarded group then consume everything up to the first "</tag>"  *)
(* at or after the boundary (they cannot pass it: the lookahead refuses    *)
(* its "<"), and the match ends with that "</tag>".  With no closing tag   *)
(* there is no match at i.  BlockEnd is the last position of the match at  *)
(* i, or 0.                                                                *)
(***************************************************************************)
BlockEnd(s, i, open, close) ==
    IF /\ MatchAt(s, i, open)
       /\ \/ i + Len(open) > Len(s)
          \/ s[i + Len(open)] \notin WordChar
    THEN LET j == FirstMatch(s, i + Len(open), close)
         IN  IF j = 0 THEN 0 ELSE j + Len(close) - 1
    ELSE 0

\* String.replace(pattern, '') with the g flag, scanning from position i:
\* the text up to the next match is kept, the match is dropped and the scan
\* resumes behind it
RECURSIVE RemoveBlocks(_, _, _, _)
RemoveBlocks(s, i, open, close) ==
    LET a == Least({j \in i..Len(s) : BlockEnd(s, j, open, close) # 0})
    IN  IF a = 0 THEN SubSeq(s, i, Len(s))
        ELSE SubSeq(s, i, a - 1)
                 \o RemoveBlocks(s, BlockEnd(s, a, open, close) + 1, open, close)

\* String.replace(/<[^>]+>/g, ' '), scanning from position i: "<", one or
\* more characters that are not ">", then ">".  A "<" directly before ">",
\* and a "<" with no later ">", is no match and is kept.
RECURSIVE ReplaceTags(_, _)
ReplaceTags(s, i) ==
    LET a == Least({j \in i..Len(s) :
                      s[j] = "<" /\ FirstChar(s, j + 1, ">") >= j + 2})
    IN  IF a = 0 THEN SubSeq(s, i, Len(s))
        ELSE SubSeq(s, i, a - 1) \o <<" ">>
                 \o ReplaceTags(s, FirstChar(s, a + 1, ">") + 1)

\* String.replace(/\s+/g, ' '): the first character of every run of white
\* space becomes a space, the rest of the run is dropped
CollapseSpace(s) ==
    LET idx  == [i \in 1..Len(s) |-> i]
        kept == SelectSeq(idx, LAMBDA i :
                    ~ (s[i] \in WhiteSpace /\ i > 1 /\ s[i - 1] \in WhiteSpace))
    IN  [k \in 1..Len(kept) |->
            IF s[kept[k]] \in WhiteSpace THEN " " ELSE s[kept[k]]]

\* String.trim()
Trim(s) ==
    LET n    == Len(s)
        lo   == Least({i \in 1..n : s[i] \notin WhiteSpace})
        back == Least({n + 1 - i : i \in {k \in 1..n : s[k] \notin WhiteSpace}})
    IN  IF lo = 0 THEN << >> ELSE SubSeq(s, lo, n + 1 - back)

\* String.substring(0, n)
Substring0(s, n) == IF Len(s) <= n THEN s ELSE SubSeq(s, 1, n)

\* the limit of line 150
MaxTextLen == 1024

ScriptOpen == <<"<", "s", "c", "r", "i", "p", "t">>

ScriptClose == <<"<", "/", "s", "c", "r", "i", "p", "t", ">">>

StyleOpen == <<"<", "s", "t", "y", "l", "e">>

StyleClose == <<"<", "/", "s", "t", "y", "l", "e", ">">>

extractMainText(html) ==
    LET noScript == RemoveBlocks(html, 1, ScriptOpen, ScriptClose)
        noStyle  == RemoveBlocks(noScript, 1, StyleOpen, StyleClose)
        noTags   == ReplaceTags(noStyle, 1)
        oneSpace == CollapseSpace(noTags)
    IN  Substring0(Trim(oneSpace), MaxTextLen)

(***************************************************************************)
(* fallbackSummary, lines 188-196.                                         *)
(***************************************************************************)
NoContentLiteral ==
    <<"N", "o", " ", "c", "o", "n", "t", "e", "n", "t", " ", "a", "v", "a",
      "i", "l", "a", "b", "l", "e", " ", "f", "o", "r", " ", "s", "u", "m",
      "m", "a", "r", "i", "z", "a", "t", "i", "o", "n", ".">>

\* the default of the parameter sentences, line 188
DefaultSentences == 3

\* /(?<!\w\.\w.)(?<![A-Z][a-z]\.)(?<=\.|\?|\!)\s/ matches the character at i
SentenceBreak(s, i) ==
    /\ s[i] \in WhiteSpace
    /\ i >= 2
    /\ s[i - 1] \in {".", "?", "!"}
    /\ ~ (/\ i >= 4
          /\ s[i - 3] \in Upper
          /\ s[i - 2] \in Lower
          /\ s[i - 1] = ".")
    /\ ~ (/\ i >= 5
          /\ s[i - 4] \in WordChar
          /\ s[i - 3] = "."
          /\ s[i - 2] \in WordChar
          /\ s[i - 1] \notin LineTerminator)

\* String.split(pattern): the pieces between the matched characters; the
\* piece that starts at position start ends before the next match
RECURSIVE Split(_, _)
Split(s, start) ==
    LET a == Least({j \in start..Len(s) : SentenceBreak(s, j)})
    IN  IF a = 0 THEN <<SubSeq(s, start, Len(s))>>
        ELSE <<SubSeq(s, start, a - 1)>> \o Split(s, a + 1)

\* Array.join(' ')
RECURSIVE Join(_)
Join(list) ==
    IF Len(list) = 0 THEN << >>
    ELSE IF Len(list) = 1 THEN list[1]
    ELSE list[1] \o <<" ">> \o Join(Tail(list))

\* a summarizer that keeps the text only when it has fewer sentences than
\* asked for
fallbackSummaryN_Strict(text, sentences) ==
    IF text = << >> THEN NoContentLiteral
    ELSE LET sentenceList == Split(text, 1)
         IN  IF Len(sentenceList) < sentences THEN text
             ELSE Join(SubSeq(sentenceList, 1, sentences))

fallbackSummaryN(text, sentences) ==
    IF text = << >> THEN NoContentLiteral
    ELSE LET sentenceList == Split(text, 1)
         IN  IF Len(sentenceList) <= sentences THEN text
             ELSE Join(SubSeq(sentenceList, 1, sentences))

fallbackSummary(text) == fallbackSummaryN(text, DefaultSentences)


(***************************************************************************)
(* The configuration and the inputs.                                       *)
(***************************************************************************)
\* the length below which summarizeWithHF does not call the API, line 155
MinTextLen == 50

\* new NodeCache({ stdTTL: 60 * 60 }), line 11, in seconds
stdTTL == 60 * 60

\* rateLimit({ windowMs: 15 * 60 * 1000, max: 50 }), lines 45-46
windowMs == 15 * 60 * 1000

max == 50

TooShortLiteral ==
    <<"A", "r", "t", "i", "c", "l", "e", " ", "c", "o", "n", "t", "e", "n",
      "t", " ", "t", "o", "o", " ", "s", "h", "o", "r", "t", " ", "f", "o",
      "r", " ", "s", "u", "m", "m", "a", "r", "i", "z", "a", "t", "i", "o",
      "n">>

\* the sentence GET /health passes to summarizeWithHF, line 57
WarmupText ==
    <<"T", "h", "i", "s", " ", "i", "s", " ", "a", " ", "t", "e", "s", "t",
      " ", "t", "e", "x", "t", " ", "t", "o", " ", "w", "a", "r", "m", " ",
      "u", "p", " ", "t", "h", "e", " ", "m", "o", "d", "e", "l", ".">>

\* bounds of the model: the requests that arrive in a run and the windows
\* that pass
MaxArrivals == 3

MaxTicks == 5

\* the requests that may be in flight at once
Slots == {1, 2}

\* req.ip, the key of the rate limiter
Clients == {"10.0.0.1", "10.0.0.2"}

\* req.body.url
URLs == {"http://a.example/1", "http://b.example/2"}

\* a page whose text is shorter than MinTextLen
PageShort ==
    <<"<", "p", ">", "H", "i", ".", "<", "/", "p", ">">>

\* a page with a script block, tags, runs of white space and five sentences,
\* two of them behind an abbreviation
PageLong ==
    <<"<", "h", "t", "m", "l", ">", "<", "S", "C", "R", "I", "P", "T", ">",
      "i", "f", " ", "(", "a", "<", "b", ")", " ", "x", "(", ")", ";", "<",
      "/", "s", "c", "r", "i", "p", "t", ">", "<", "p", ">", "R", "a", "i",
      "n", " ", "f", "e", "l", "l", " ", "o", "n", " ", "M", "r", ".", " ",
      "F", "o", "x", " ", "t", "o", "d", "a", "y", ".", "\n", "H", "e",
      " ", "r", "a", "n", " ", "h", "o", "m", "e", "?", " ", " ", "Y", "e",
      "s", "!", " ", "D", "r", ".", " ", "W", "h", "o", " ", "c", "a", "m",
      "e", " ", "b", "y", ".", " ", "I", "t", " ", "e", "n", "d", "e", "d",
      ".", "<", "/", "p", ">", "<", "/", "h", "t", "m", "l", ">">>

Pages == {PageShort, PageLong}

\* what the inference API may answer with
ModelSummary ==
    <<"R", "a", "i", "n", " ", "a", "n", "d", " ", "a", " ", "f", "o", "x",
      ".">>

\* the outcomes of axios.get(url, ...) of line 103: the promise rejects
\* (network error, non-2xx status, timeout), or resolves with response.data a
\* string, or with response.data an object (a JSON body, which axios parses)
FetchOutcomes ==
    {[kind |-> "error", message |-> "timeout of 10000ms exceeded", data |-> << >>],
     [kind |-> "object", message |-> "", data |-> << >>]}
    \cup {[kind |-> "string", message |-> "", data |-> h] : h \in Pages}

\* the outcomes of axios.post(HF_API_URL, ...) of line 160: the promise
\* rejects, or resolves with data that has no first element, or with a first
\* element whose summary_text is missing or empty, or with a summary
HFOutcomes ==
    {[kind |-> "error", message |-> "timeout of 30000ms exceeded",
      first |-> FALSE, summary_text |-> << >>],
     [kind |-> "data", message |-> "", first |-> FALSE, summary_text |-> << >>],
     [kind |-> "data", message |-> "", first |-> TRUE, summary_text |-> << >>],
     [kind |-> "data", message |-> "", first |-> TRUE,
      summary_text |-> ModelSummary]}

\* process.env.NEWS_API_KEY, line 36
NEWS_API_KEY == <<"k", "e", "y">>

\* what a template literal puts for a value that is undefined
UndefinedLiteral == <<"u", "n", "d", "e", "f", "i", "n", "e", "d">>

\* the names line 69 takes from req.query
QueryNames == {"country", "category", "page", "pageSize"}

\* req.query of GET /api/news, with the values decoded as the framework
\* hands them over: all four names given; a value that holds "&" and "=";
\* and a name left out
Queries ==
    {[country |-> <<"u", "s">>, category |-> <<"t", "e", "c", "h">>,
      page |-> <<"1">>, pageSize |-> <<"5">>],
     [country |-> <<"u", "s", "&", "q", "=", "x">>,
      category |-> <<"t", "e", "c", "h">>, page |-> <<"1">>,
      pageSize |-> <<"5">>],
     [country |-> <<"u", "s">>, category |-> <<"t", "e", "c", "h">>,
      page |-> <<"1">>]}

\* ${name} of the template literal of line 70
Interpolate(query, name) ==
    IF name \in DOMAIN query THEN query[name] ELSE UndefinedLiteral

\* the URL of line 70
NewsURL(query) ==
    <<"h", "t", "t", "p", "s", ":", "/", "/", "n", "e", "w", "s", "a", "p",
      "i", ".", "o", "r", "g", "/", "v", "2", "/", "t", "o", "p", "-", "h",
      "e", "a", "d", "l", "i", "n", "e", "s", "?", "c", "o", "u", "n", "t",
      "r", "y", "=">>
    \o Interpolate(query, "country")
    \o <<"&", "c", "a", "t", "e", "g", "o", "r", "y", "=">>
    \o Interpolate(query, "category")
    \o <<"&", "a", "p", "i", "K", "e", "y", "=">>
    \o NEWS_API_KEY
    \o <<"&", "p", "a", "g", "e", "=">>
    \o Interpolate(query, "page")
    \o <<"&", "p", "a", "g", "e", "S", "i", "z", "e", "=">>
    \o Interpolate(query, "pageSize")

\* the outcomes of axios.get(url) of line 71: the promise rejects (network
\* error, non-2xx status), or resolves with response.data the JSON value the
\* provider sent
NewsOutcomes ==
    {[kind |-> "error", message |-> "Request failed with status code 500",
      data |-> ""],
     [kind |-> "data", message |-> "",
      data |-> "{status: 'ok', totalResults: 0, articles: []}"]}


(***************************************************************************)
(* The state.                                                              *)
(*                                                                         *)
(* now       Date.now(), in milliseconds since the process started         *)
(* hfReady   the flag of line 41                                           *)
(* data      the entries of summaryCache: key k, value v, expiry time t    *)
(* hits      the rate limiter's counter of each client in this window      *)
(* reqs      the requests in flight, one per slot: the position of the     *)
(*           handler, the URL, the extracted text, the URL sent to the     *)
(*           headline provider and the outbound calls and cache operations *)
(*           performed so far                                              *)
(* resp      the response sent last, with the operations of its request    *)
(* arrivals  how many requests have arrived since the initial state        *)
(*                                                                         *)
(* History, read by no action's guard or result:                           *)
(* hfAnswered  the inference API has answered some call with a summary     *)
(* written     for each URL the last summaryCache.set: value and time      *)
(* last        for each URL the last completed /summarize request          *)
(* arrived     the /summarize requests of each client in this window       *)
(* handled     those of them that reached the handler                      *)
(*                                                                         *)
(* call      the argument and the result of a helper function applied on   *)
(*           its own, outside any request                                  *)
(***************************************************************************)
VARIABLES now, hfReady, data, hits, reqs, resp, arrivals,
          hfAnswered, written, last, arrived, handled, call

vars == <<now, hfReady, data, hits, reqs, resp, arrivals,
          hfAnswered, written, last, arrived, handled, call>>

IdleReq ==
    [pc |-> "idle", route |-> "", url |-> "", text |-> << >>, sent |-> << >>,
     ops |-> << >>]

NoRes ==
    [route |-> "", url |-> "", code |-> 0, keys |-> {}, status |-> "",
     summary |-> << >>, error |-> "", details |-> "", body |-> "",
     ops |-> << >>]

NoWrite == [has |-> FALSE, v |-> << >>, at |-> 0]

NoLast == [has |-> FALSE, code |-> 0, fetches |-> 0, posts |-> 0, at |-> 0]

\* no helper function is applied on its own
NoCall == [fn |-> "", arg |-> << >>, ret |-> << >>, done |-> FALSE]

\* how often a request performed the operation op
Count(ops, op) == Cardinality({i \in DOMAIN ops : ops[i] = op})

(***************************************************************************)
(* The summary cache: node-cache with stdTTL, line 11.  set stores the     *)
(* value under the key with the expiry time now + stdTTL * 1000, replacing *)
(* the key's entry; get returns the value of an entry that has not         *)
(* expired, and deletes the entry it finds expired (t < now).  The         *)
(* cache's periodic sweep removes only entries that get already treats as  *)
(* absent, and is left out.                                                *)
(***************************************************************************)
\* a cache that never expires an entry
Expired_Never(e) == FALSE

Expired(e) == e.t # 0 /\ e.t < now

\* a get that takes any live entry, whatever its key
CacheGet_AnyKey(k) ==
    LET found == {e \in data : ~ Expired(e)}
    IN  IF found = {} THEN [defined |-> FALSE, v |-> << >>]
        ELSE [defined |-> TRUE, v |-> (CHOOSE e \in found : TRUE).v]

CacheGet(k) ==
    LET found == {e \in data : e.k = k /\ ~ Expired(e)}
    IN  IF found = {} THEN [defined |-> FALSE, v |-> << >>]
        ELSE [defined |-> TRUE, v |-> (CHOOSE e \in found : TRUE).v]

CacheAfterGet(k) == {e \in data : ~ (e.k = k /\ Expired(e))}

\* a set that stores nothing
CacheSet_NoStore(k, v) == data

CacheSet(k, v) ==
    {e \in data : e.k # k} \cup {[k |-> k, v |-> v, t |-> now + stdTTL * 1000]}

(***************************************************************************)
(* The responses: the status code and the keys and values of the JSON      *)
(* body, for the request q with its operations.                            *)
(***************************************************************************)
Response(q, code, keys) ==
    [NoRes EXCEPT !.route = q.route, !.url = q.url, !.ops = q.ops,
                  !.code = code, !.keys = keys]

\* res.json({ summary }), lines 92 and 126
SummaryResponse(q, summary) ==
    [Response(q, 200, {"summary"}) EXCEPT !.summary = summary]

\* line 97
NotReadyResponse(q) ==
    [Response(q, 503, {"error"}) EXCEPT
       !.error = "AI model is still loading. Please try again in 30 seconds."]

\* line 135
FailedResponse(q, message) ==
    [Response(q, 500, {"error", "details"}) EXCEPT
       !.error = "Failed to generate summary. Please try another article.",
       !.details = message]

\* the handler of the rate limiter, line 48
TooManyResponse(q) ==
    [Response(q, 429, {"error"}) EXCEPT
       !.error = "Too many summarization requests, please try again later"]

\* line 59
HealthOkResponse(q, testSummary) ==
    [Response(q, 200, {"status", "summary"}) EXCEPT
       !.status = "ok", !.summary = testSummary]

\* line 62
HealthErrorResponse(q, message) ==
    [Response(q, 500, {"status", "error"}) EXCEPT
       !.status = "error", !.error = message]

\* res.json(response.data), line 72: the body is the JSON value received
NewsOkResponse(q, body) == [Response(q, 200, {}) EXCEPT !.body = body]

\* line 75
NewsErrorResponse(q, message) ==
    [Response(q, 500, {"error", "details"}) EXCEPT
       !.error = "Proxy error", !.details = message]

\* res.send(...), line 200
RootResponse(q) ==
    [Response(q, 200, {}) EXCEPT !.body = "News Proxy Server is running!"]

(***************************************************************************)
(* summarizeWithHF, lines 154-185.                                         *)
(***************************************************************************)
\* a client without the length test
TooShort_Never(text) == FALSE

\* line 155: the text is absent, empty or shorter than MinTextLen, and the
\* function returns TooShortLiteral without calling the API
TooShort(text) == text = << >> \/ Len(text) < MinTextLen

\* a catch that returns a string instead of throwing
HFResult_ReturnsString(out) ==
    IF out.kind = "data" /\ out.first /\ out.summary_text # << >>
    THEN [threw |-> FALSE, value |-> out.summary_text, message |-> ""]
    ELSE [threw |-> FALSE, value |-> TooShortLiteral, message |-> ""]

\* a client that returns summary_text of the first result without testing it
HFResult_NoTruthTest(out) ==
    IF out.kind = "error"
    THEN [threw |-> TRUE, value |-> << >>, message |-> out.message]
    ELSE IF out.first
         THEN [threw |-> FALSE, value |-> out.summary_text, message |-> ""]
         ELSE [threw |-> TRUE, value |-> << >>,
               message |-> "Summary not available from Hugging Face"]

\* lines 169-184: what the function does with the outcome of its POST, a
\* returned summary or a thrown error
HFResult(out) ==
    IF out.kind = "error"
    THEN [threw |-> TRUE, value |-> << >>, message |-> out.message]
    ELSE IF out.first /\ out.summary_text # << >>
         THEN [threw |-> FALSE, value |-> out.summary_text, message |-> ""]
         ELSE [threw |-> TRUE, value |-> << >>,
               message |-> "Summary not available from Hugging Face"]

\* line 156: the result when the text is too short
ShortResult == [threw |-> FALSE, value |-> TooShortLiteral, message |-> ""]

\* the text of each page and the fallback summary of each text, computed
\* once: lines 113 and 121
Extracted == [h \in Pages |-> extractMainText(h)]

Fallback == [t \in {Extracted[h] : h \in Pages} \cup {WarmupText} |-> fallbackSummary(t)]

(***************************************************************************)
(* The handlers.  A handler runs without interruption up to its next       *)
(* await of an outbound call; the call's outcome arrives as a later step.  *)
(***************************************************************************)
Init ==
    /\ now = 0
    /\ hfReady = FALSE
    /\ data = {}
    /\ hits = [c \in Clients |-> 0]
    /\ reqs = [r \in Slots |-> IdleReq]
    /\ resp = NoRes
    /\ arrivals = 0
    /\ hfAnswered = FALSE
    /\ written = [u \in URLs |-> NoWrite]
    /\ last = [u \in URLs |-> NoLast]
    /\ arrived = [c \in Clients |-> 0]
    /\ handled = [c \in Clients |-> 0]
    /\ call = NoCall

\* the response d is sent: the request in slot r is over
Send(r, d) ==
    /\ resp' = d
    /\ reqs' = [reqs EXCEPT ![r] = IdleReq]

\* the history of the last completed /summarize request of a URL
Record(d) ==
    last' = [last EXCEPT ![d.url] =
                [has |-> TRUE, code |-> d.code,
                 fetches |-> Count(d.ops, "axios.get"),
                 posts |-> Count(d.ops, "axios.post"), at |-> now]]

\* a /health that responds without setting the flag
HealthSettled_FlagKept(r, q, result) ==
    /\ hfReady' = hfReady
    /\ Send(r, IF result.threw THEN HealthErrorResponse(q, result.message)
               ELSE HealthOkResponse(q, result.value))

\* lines 58-63: summarizeWithHF has returned or thrown, and the handler of
\* /health sets the flag and responds
HealthSettled(r, q, result) ==
    /\ hfReady' = ~ result.threw
    /\ Send(r, IF result.threw THEN HealthErrorResponse(q, result.message)
               ELSE HealthOkResponse(q, result.value))

\* GET /health, lines 55-64, whether a client sends it or the process itself
\* after it has started (line 210), up to the await inside summarizeWithHF:
\* with a text that is too short the function returns at once and the
\* handler sets the flag and responds; otherwise the POST of line 160 is
\* issued
HealthStart(r) ==
    /\ reqs[r].pc = "idle"
    /\ arrivals < MaxArrivals
    /\ arrivals' = arrivals + 1
    /\ LET q == [IdleReq EXCEPT !.route = "health"]
       IN  IF TooShort(WarmupText)
           THEN HealthSettled(r, q, ShortResult)
           ELSE /\ hfReady' = hfReady
                /\ resp' = resp
                /\ reqs' = [reqs EXCEPT ![r] =
                       [q EXCEPT !.pc = "inferring", !.text = WarmupText,
                                 !.ops = <<"axios.post">>]]
    /\ UNCHANGED <<now, data, hits, hfAnswered, written, last, arrived, handled,
                   call>>

\* a limiter that lets one request too many through
OverLimit_OffByOne(totalHits) == totalHits > max + 1

\* the rate limiter, lines 44-52: the request that brings the client's
\* counter above max is answered by the limiter's handler
OverLimit(totalHits) == totalHits > max

\* a handler that never takes the cached summary
CacheHit_Never(cachedSummary) == FALSE

\* line 90: if (cachedSummary), the value found and not the empty string
CacheHit(cachedSummary) == cachedSummary.defined /\ cachedSummary.v # << >>

\* a handler without the readiness gate
NotReady_Ungated == FALSE

\* line 96: if (!hfReady)
NotReady == ~ hfReady

\* POST /summarize, line 83: the rate limiter, then lines 84-108 of the
\* handler up to the await of the article fetch
SummarizeStart(r, c, u) ==
    /\ reqs[r].pc = "idle"
    /\ arrivals < MaxArrivals
    /\ hits[c] <= max + 1
    /\ arrivals' = arrivals + 1
    /\ hits' = [hits EXCEPT ![c] = @ + 1]
    /\ arrived' = [arrived EXCEPT ![c] = @ + 1]
    /\ LET q == [IdleReq EXCEPT !.route = "summarize", !.url = u]
           g == [q EXCEPT !.ops = <<"cache.get">>]
           cachedSummary == CacheGet(u)
       IN  IF OverLimit(hits[c] + 1)
           THEN /\ Send(r, TooManyResponse(q))
                /\ Record(TooManyResponse(q))
                /\ UNCHANGED <<data, handled>>
           ELSE /\ handled' = [handled EXCEPT ![c] = @ + 1]
                /\ data' = CacheAfterGet(u)
                /\ IF CacheHit(cachedSummary)
                   THEN /\ Send(r, SummaryResponse(g, cachedSummary.v))
                        /\ Record(SummaryResponse(g, cachedSummary.v))
                   ELSE IF NotReady
                   THEN /\ Send(r, NotReadyResponse(g))
                        /\ Record(NotReadyResponse(g))
                   ELSE /\ reqs' = [reqs EXCEPT ![r] =
                               [g EXCEPT !.pc = "fetching",
                                         !.ops = Append(g.ops, "axios.get")]]
                        /\ UNCHANGED <<resp, last>>
    /\ UNCHANGED <<now, hfReady, hfAnswered, written, call>>

\* a handler that caches the extracted text in place of the summary
Finish_CachesText(r, q, summary) ==
    LET d == SummaryResponse([q EXCEPT !.ops = Append(q.ops, "cache.set")],
                             summary)
    IN  /\ data' = CacheSet(q.url, q.text)
        /\ written' = [written EXCEPT ![q.url] =
                           [has |-> TRUE, v |-> q.text, at |-> now]]
        /\ Send(r, d)
        /\ Record(d)

\* lines 124-126: the summary is cached under the URL and returned
Finish(r, q, summary) ==
    LET d == SummaryResponse([q EXCEPT !.ops = Append(q.ops, "cache.set")],
                             summary)
    IN  /\ data' = CacheSet(q.url, summary)
        /\ written' = [written EXCEPT ![q.url] =
                           [has |-> TRUE, v |-> summary, at |-> now]]
        /\ Send(r, d)
        /\ Record(d)

\* a catch that answers with a fallback summary and caches it
Fail_Fallback(r, q, message) == Finish(r, q, NoContentLiteral)

\* lines 127-139: the catch of the handler
Fail(r, q, message) ==
    /\ Send(r, FailedResponse(q, message))
    /\ Record(FailedResponse(q, message))
    /\ UNCHANGED <<data, written>>

\* a handler that fetches the article once more when the fetch has failed
FetchReturn_Retry(r, out) ==
    /\ reqs[r].pc = "fetching"
    /\ LET q == reqs[r]
       IN  IF out.kind = "error" /\ Count(q.ops, "axios.get") < 2
           THEN /\ reqs' = [reqs EXCEPT ![r] =
                       [q EXCEPT !.ops = Append(q.ops, "axios.get")]]
                /\ UNCHANGED <<resp, data, written, last>>
           ELSE IF out.kind = "error" THEN Fail(r, q, out.message)
           ELSE IF out.kind = "object"
           THEN Fail(r, q, "html.replace is not a function")
           ELSE LET text == Extracted[out.data]
                IN  IF TooShort(text)
                    THEN Finish(r, [q EXCEPT !.text = text], TooShortLiteral)
                    ELSE /\ reqs' = [reqs EXCEPT ![r] =
                                [q EXCEPT !.pc = "inferring", !.text = text,
                                   !.ops = Append(q.ops, "axios.post")]]
                         /\ UNCHANGED <<resp, data, written, last>>
    /\ UNCHANGED <<now, hfReady, hits, arrivals, hfAnswered, arrived, handled,
                   call>>

\* the article fetch of line 103 settles: lines 110-118, up to the await
\* inside summarizeWithHF, or the catch of line 127
FetchReturn(r, out) ==
    /\ reqs[r].pc = "fetching"
    /\ LET q == reqs[r]
       IN  IF out.kind = "error" THEN Fail(r, q, out.message)
           ELSE IF out.kind = "object"
           THEN Fail(r, q, "html.replace is not a function")
           ELSE LET text == Extracted[out.data]
                IN  IF TooShort(text)
                    THEN Finish(r, [q EXCEPT !.text = text], TooShortLiteral)
                    ELSE /\ reqs' = [reqs EXCEPT ![r] =
                                [q EXCEPT !.pc = "inferring", !.text = text,
                                   !.ops = Append(q.ops, "axios.post")]]
                         /\ UNCHANGED <<resp, data, written, last>>
    /\ UNCHANGED <<now, hfReady, hits, arrivals, hfAnswered, arrived, handled,
                   call>>

\* a /summarize handler that takes the model for not ready when its
\* inference call has failed
HFReturn_ResetsFlag(r, out) ==
    /\ reqs[r].pc = "inferring"
    /\ LET result == HFResult(out)
           q == reqs[r]
       IN  /\ hfAnswered' = (hfAnswered \/ ~ result.threw)
           /\ IF q.route = "health"
              THEN /\ HealthSettled(r, q, result)
                   /\ UNCHANGED <<data, written, last>>
              ELSE /\ hfReady' = (hfReady /\ ~ result.threw)
                   /\ Finish(r, q, IF result.threw THEN Fallback[q.text]
                                   ELSE result.value)
    /\ UNCHANGED <<now, hits, arrivals, arrived, handled, call>>

\* the POST of line 160 settles: lines 169-184, then the rest of the caller,
\* lines 58-63 of /health or lines 119-126 of /summarize
HFReturn(r, out) ==
    /\ reqs[r].pc = "inferring"
    /\ LET result == HFResult(out)
           q == reqs[r]
       IN  /\ hfAnswered' = (hfAnswered \/ ~ result.threw)
           /\ IF q.route = "health"
              THEN /\ HealthSettled(r, q, result)
                   /\ UNCHANGED <<data, written, last>>
              ELSE /\ hfReady' = hfReady
                   /\ Finish(r, q, IF result.threw THEN Fallback[q.text]
                                   ELSE result.value)
    /\ UNCHANGED <<now, hits, arrivals, arrived, handled, call>>

\* GET /api/news, lines 67-71, up to the await of the upstream call
NewsStart(r, query) ==
    /\ reqs[r].pc = "idle"
    /\ arrivals < MaxArrivals
    /\ arrivals' = arrivals + 1
    /\ reqs' = [reqs EXCEPT ![r] =
           [IdleReq EXCEPT !.route = "news", !.pc = "relaying",
                           !.sent = NewsURL(query), !.ops = <<"axios.get">>]]
    /\ UNCHANGED <<now, hfReady, data, hits, resp, hfAnswered, written, last,
                   arrived, handled, call>>

\* the upstream call of line 71 settles: line 72, or the catch of lines 73-79
NewsReturn(r, out) ==
    /\ reqs[r].pc = "relaying"
    /\ Send(r, IF out.kind = "error"
               THEN NewsErrorResponse(reqs[r], out.message)
               ELSE NewsOkResponse(reqs[r], out.data))
    /\ UNCHANGED <<now, hfReady, data, hits, arrivals, hfAnswered, written,
                   last, arrived, handled, call>>

\* GET /, lines 199-201
Root(r) ==
    /\ reqs[r].pc = "idle"
    /\ arrivals < MaxArrivals
    /\ arrivals' = arrivals + 1
    /\ Send(r, RootResponse([IdleReq EXCEPT !.route = "root"]))
    /\ UNCHANGED <<now, hfReady, data, hits, hfAnswered, written, last,
                   arrived, handled, call>>

\* windowMs pass, and the limiter's timer starts a new window for every
\* client (the limiter counts in fixed windows of windowMs)
Tick ==
    /\ now < MaxTicks * windowMs
    /\ now' = now + windowMs
    /\ hits' = [c \in Clients |-> 0]
    /\ arrived' = [c \in Clients |-> 0]
    /\ handled' = [c \in Clients |-> 0]
    /\ UNCHANGED <<hfReady, data, reqs, resp, arrivals, hfAnswered, written,
                   last, call>>

Next ==
    \/ \E r \in Slots : HealthStart(r)
    \/ \E r \in Slots, c \in Clients, u \in URLs : SummarizeStart(r, c, u)
    \/ \E r \in Slots, out \in FetchOutcomes : FetchReturn(r, out)
    \/ \E r \in Slots, out \in HFOutcomes : HFReturn(r, out)
    \/ \E r \in Slots, query \in Queries : NewsStart(r, query)
    \/ \E r \in Slots, out \in NewsOutcomes : NewsReturn(r, out)
    \/ \E r \in Slots : Root(r)
    \/ Tick

Spec == Init /\ [][Next]_vars

\* The timers of the outbound calls.  The article fetch carries timeout:
\* 10000 (line 107) and the inference call timeout: 30000 (line 165): when
\* the call has not settled by then, axios rejects it.  The upstream call of
\* line 71 is given no timeout, and axios then sets no timer.
Timeout(r) ==
    \/ /\ reqs[r].pc = "fetching"
       /\ FetchReturn(r, [kind |-> "error",
                          message |-> "timeout of 10000ms exceeded",
                          data |-> << >>])
    \/ /\ reqs[r].pc = "inferring"
       /\ HFReturn(r, [kind |-> "error",
                       message |-> "timeout of 30000ms exceeded",
                       first |-> FALSE, summary_text |-> << >>])

\* The server with its timers: a timer that is set fires unless its call
\* settles first.  The services called may answer or not.
SpecLive == Init /\ [][Next]_vars /\ \A r \in Slots : WF_vars(Timeout(r))

\* A window in which some clients have already sent max - 1 requests to
\* /summarize for one URL, each answered 503 because the model was not ready
BurstURL == CHOOSE u \in URLs : TRUE

BurstResponse ==
    NotReadyResponse([IdleReq EXCEPT !.route = "summarize", !.url = BurstURL,
                                     !.ops = <<"cache.get">>])

InitBurst ==
    /\ now = 0
    /\ hfReady = FALSE
    /\ data = {}
    /\ \E busy \in (SUBSET Clients) \ {{}} :
          /\ hits = [c \in Clients |-> IF c \in busy THEN max - 1 ELSE 0]
          /\ arrived = hits
          /\ handled = hits
    /\ reqs = [r \in Slots |-> IdleReq]
    /\ resp = BurstResponse
    /\ arrivals = 0
    /\ hfAnswered = FALSE
    /\ written = [u \in URLs |-> NoWrite]
    /\ last = [u \in URLs |->
                 IF u = BurstURL
                 THEN [has |-> TRUE, code |-> 503, fetches |-> 0, posts |-> 0,
                       at |-> 0]
                 ELSE NoLast]
    /\ call = NoCall

SpecBurst == InitBurst /\ [][Next]_vars

\* The server after the one GET /health of a fresh process (the warm-up of
\* line 210): the flag is set and nothing is cached
InitReady ==
    /\ now = 0
    /\ hfReady = TRUE
    /\ data = {}
    /\ hits = [c \in Clients |-> 0]
    /\ reqs = [r \in Slots |-> IdleReq]
    /\ resp = HealthOkResponse([IdleReq EXCEPT !.route = "health"],
                               TooShortLiteral)
    /\ arrivals = 0
    /\ hfAnswered = FALSE
    /\ written = [u \in URLs |-> NoWrite]
    /\ last = [u \in URLs |-> NoLast]
    /\ arrived = [c \in Clients |-> 0]
    /\ handled = [c \in Clients |-> 0]
    /\ call = NoCall

\* the steps of /summarize requests
NextSummarize ==
    \/ \E r \in Slots, c \in Clients, u \in URLs : SummarizeStart(r, c, u)
    \/ \E r \in Slots, out \in FetchOutcomes : FetchReturn(r, out)
    \/ \E r \in Slots, out \in HFOutcomes : HFReturn(r, out)

\* the server that, once ready, receives only /summarize requests, all of
\* them within one window of the limiter and within the TTL of what they
\* cache
SpecReady == InitReady /\ [][NextSummarize]_vars

(***************************************************************************)
(* The helper functions applied on their own, to inputs drawn from bounded *)
(* sets.  No request is in flight and the server's state is that of Init.  *)
(***************************************************************************)
\* the server's state while a helper function is applied on its own
Quiet ==
    /\ now = 0
    /\ hfReady = FALSE
    /\ data = {}
    /\ hits = [c \in Clients |-> 0]
    /\ reqs = [r \in Slots |-> IdleReq]
    /\ resp = NoRes
    /\ arrivals = 0
    /\ hfAnswered = FALSE
    /\ written = [u \in URLs |-> NoWrite]
    /\ last = [u \in URLs |-> NoLast]
    /\ arrived = [c \in Clients |-> 0]
    /\ handled = [c \in Clients |-> 0]

\* the strings of at most n characters of the alphabet A
Strings(A, n) == UNION {[1..k -> A] : k \in 0..n}

\* the inputs of extractMainText: every string of at most MaxHtmlLen
\* characters of HtmlAlphabet, the pages, and a text longer than MaxTextLen
\* inside a tag pair
MaxHtmlLen == 4

HtmlAlphabet == {"<", ">", "a", " "}

LongHtml ==
    <<"<", "p", ">">>
    \o [i \in 1..1100 |-> IF i % 8 = 0 THEN " " ELSE "a"]
    \o <<"<", "/", "p", ">">>

HtmlInputs == Strings(HtmlAlphabet, MaxHtmlLen) \cup Pages \cup {LongHtml}

InitExtract ==
    /\ Quiet
    /\ \E html \in HtmlInputs :
          call = [NoCall EXCEPT !.fn = "extractMainText", !.arg = html]

\* const text = extractMainText(html), line 113
Extract ==
    /\ call.fn = "extractMainText"
    /\ ~ call.done
    /\ call' = [call EXCEPT !.ret = extractMainText(call.arg), !.done = TRUE]
    /\ UNCHANGED <<now, hfReady, data, hits, reqs, resp, arrivals, hfAnswered,
                   written, last, arrived, handled>>

SpecExtract == InitExtract /\ [][Extract]_vars

\* the inputs of fallbackSummary: the texts made of at most MaxTokens
\* pieces, each a sentence with the white space behind it, an abbreviation,
\* a question at the end of a line, a letter, a space or a mark
MaxTokens == 5

Tokens ==
    {<<"a", ".", " ">>, <<"M", "r", ".", " ">>, <<"b", "?", "\n">>, <<"a">>,
     <<" ">>, <<".">>, <<"!">>}

RECURSIVE Flatten(_)
Flatten(list) ==
    IF Len(list) = 0 THEN << >> ELSE list[1] \o Flatten(Tail(list))

FallbackInputs == {Flatten(list) : list \in Strings(Tokens, MaxTokens)}

InitFallback ==
    /\ Quiet
    /\ \E text \in FallbackInputs :
          call = [NoCall EXCEPT !.fn = "fallbackSummary", !.arg = text]

\* summary = fallbackSummary(text), line 121
Summarise ==
    /\ call.fn = "fallbackSummary"
    /\ ~ call.done
    /\ call' = [call EXCEPT !.ret = fallbackSummary(call.arg), !.done = TRUE]
    /\ UNCHANGED <<now, hfReady, data, hits, reqs, resp, arrivals, hfAnswered,
                   written, last, arrived, handled>>

SpecFallback == InitFallback /\ [][Summarise]_vars

(***************************************************************************)
(* The properties.                                                         *)
(***************************************************************************)
\* the cache holds an entry of the URL that has not expired: the last set of
\* the URL is at most stdTTL seconds old
LiveEntry(u) == written[u].has /\ now <= written[u].at + stdTTL * 1000

\* the request of slot r is over after the step: its response is resp'
Over(r) == reqs'[r].pc = "idle"

\* C1: hfReady is true only in states before which the inference API has
\* answered a call successfully (it starts false, and a failed probe resets
\* it).
C1_ReadyOnlyAfterInference == hfReady => hfAnswered

\* C2: every GET /health request has made exactly one call to the inference
\* API when it responds.
C2_HealthCallsInference ==
    resp.route = "health" => Count(resp.ops, "axios.post") = 1

\* C3: a /summarize request that is not rate-limited and finds a live cache
\* entry of its URL responds 200 with exactly the cached summary and is over
\* with no operation but the cache read (no article fetch, no inference
\* call), whatever the value of hfReady.
C3_CacheHitShortCircuit ==
    [][\A r \in Slots, c \in Clients, u \in URLs :
          (SummarizeStart(r, c, u) /\ arrived[c] < max /\ LiveEntry(u))
             => /\ Over(r)
                /\ resp'.route = "summarize"
                /\ resp'.url = u
                /\ resp'.code = 200
                /\ resp'.keys = {"summary"}
                /\ resp'.summary = written[u].v
                /\ resp'.ops = <<"cache.get">>]_vars

\* a request has been served from a live cache entry
C3_Witness ==
    /\ resp.route = "summarize"
    /\ resp.code = 200
    /\ resp.ops = <<"cache.get">>
    /\ LiveEntry(resp.url)
    /\ resp.summary = written[resp.url].v

\* C4: a /summarize request that is not rate-limited and finds no live cache
\* entry of its URL, handled while hfReady is false, responds 503 and is over
\* with no operation but the cache read: no article fetch, no inference call
\* and no cache write.
C4_NotReadyRejects ==
    [][\A r \in Slots, c \in Clients, u \in URLs :
          (/\ SummarizeStart(r, c, u)
           /\ arrived[c] < max
           /\ ~ LiveEntry(u)
           /\ ~ hfReady)
             => /\ Over(r)
                /\ resp'.route = "summarize"
                /\ resp'.url = u
                /\ resp'.code = 503
                /\ resp'.keys = {"error"}
                /\ resp'.ops = <<"cache.get">>
                /\ written' = written
                /\ data' \subseteq data]_vars

\* a request has been answered 503 while the flag is false
C4_Witness ==
    /\ resp.route = "summarize"
    /\ resp.code = 503
    /\ resp.ops = <<"cache.get">>
    /\ ~ hfReady

\* the operations the request of slot r has performed after the step
OpsAfter(r) == IF Over(r) THEN resp'.ops ELSE reqs'[r].ops

\* C5 (as stated): for any two consecutive /summarize requests for the same
\* URL, the second arriving within the TTL after the first completed, the
\* two together issue at most one article fetch.
C5_AtMostOneFetchPerPair ==
    [][\A r \in Slots, c \in Clients, u \in URLs :
          (/\ SummarizeStart(r, c, u)
           /\ last[u].has
           /\ now <= last[u].at + stdTTL * 1000)
             => last[u].fetches + Count(OpsAfter(r), "axios.get") <= 1]_vars

\* C5 (amended): for two consecutive /summarize requests for the same URL of
\* which the first responded 200, the second, when it is not rate-limited and
\* arrives while the entry the first wrote or read is live, is served from
\* the cache with no fetch and no inference call, so that the two together
\* issue at most one article fetch and at most one inference call.
C5_SecondServedFromCache ==
    [][\A r \in Slots, c \in Clients, u \in URLs :
          (/\ SummarizeStart(r, c, u)
           /\ arrived[c] < max
           /\ last[u].has
           /\ last[u].code = 200
           /\ LiveEntry(u))
             => /\ Over(r)
                /\ resp'.code = 200
                /\ resp'.summary = written[u].v
                /\ last[u].fetches + Count(resp'.ops, "axios.get") <= 1
                /\ last[u].posts + Count(resp'.ops, "axios.post") <= 1
                /\ Count(resp'.ops, "cache.set") = 0]_vars

\* the second of two requests for a URL has been served from the cache
C5_Witness ==
    /\ resp.route = "summarize"
    /\ resp.code = 200
    /\ resp.ops = <<"cache.get">>
    /\ last[resp.url].code = 200
    /\ last[resp.url].fetches = 0
    /\ written[resp.url].has

\* the inference call failed: the POST was rejected, or its data has no
\* first element or no summary_text
HFFailed(out) == out.kind = "error" \/ ~ out.first \/ out.summary_text = << >>

\* C6: when the inference call of a /summarize request fails, the request
\* responds 200 with fallbackSummary of the text extracted from the fetched
\* page, and that summary is the cache's entry of the URL.
C6_FallbackOnInferenceFailure ==
    [][/\ \A r \in Slots, out \in FetchOutcomes :
             (FetchReturn(r, out) /\ out.kind = "string" /\ ~ Over(r))
                => reqs'[r].text = Extracted[out.data]
       /\ \A r \in Slots, out \in HFOutcomes :
             (HFReturn(r, out) /\ reqs[r].route = "summarize" /\ HFFailed(out))
                => /\ Over(r)
                   /\ resp'.route = "summarize"
                   /\ resp'.url = reqs[r].url
                   /\ resp'.code = 200
                   /\ resp'.keys = {"summary"}
                   /\ resp'.summary = Fallback[reqs[r].text]
                   /\ {e.v : e \in {x \in data' : x.k = reqs[r].url}}
                         = {resp'.summary}]_vars

\* a request whose inference call failed has answered with the fallback
C6_Witness ==
    /\ resp.route = "summarize"
    /\ resp.code = 200
    /\ resp.ops = <<"cache.get", "axios.get", "axios.post", "cache.set">>
    /\ resp.summary = Fallback[Extracted[PageLong]]
    /\ resp.summary # Extracted[PageLong]
    /\ \E e \in data : e.k = resp.url /\ e.v = resp.summary

\* C7: get returns the value of the last set of a URL as long as at most
\* stdTTL seconds have passed since that set, and nothing later; the cache
\* holds at most one entry per URL; and a response served from the cache
\* carries the value of a live entry.
C7_CacheTTL ==
    /\ [](/\ \A u \in URLs :
                IF LiveEntry(u)
                THEN CacheGet(u) = [defined |-> TRUE, v |-> written[u].v]
                ELSE ~ CacheGet(u).defined
          /\ \A e1, e2 \in data : e1.k = e2.k => e1 = e2)
    /\ [][\A r \in Slots, c \in Clients, u \in URLs :
             (/\ SummarizeStart(r, c, u)
              /\ Over(r)
              /\ resp'.code = 200)
                => LiveEntry(u) /\ resp'.summary = written[u].v]_vars

\* an entry has outlived its TTL and a get has found its URL absent
C7_Witness ==
    \E u \in URLs :
       /\ written[u].has
       /\ now > written[u].at + stdTTL * 1000
       /\ ~ \E e \in data : e.k = u
       /\ \E r \in Slots : reqs[r].url = u /\ reqs[r].pc = "fetching"

\* C8: the request that is a client's (max + 1)th or later in the window is
\* answered 429 with the limiter's message and does nothing else: no cache
\* read or write, no outbound call, no change of hfReady; so at most max
\* requests of a client reach the handler in a window.
C8_RateLimit ==
    /\ [](\A c \in Clients : handled[c] <= max)
    /\ [][\A r \in Slots, c \in Clients, u \in URLs :
             (SummarizeStart(r, c, u) /\ arrived[c] >= max)
                => /\ Over(r)
                   /\ resp'.route = "summarize"
                   /\ resp'.code = 429
                   /\ resp'.keys = {"error"}
                   /\ resp'.error
                        = "Too many summarization requests, please try again later"
                   /\ resp'.ops = << >>
                   /\ UNCHANGED <<data, written, hfReady, handled>>
                   /\ \A o \in Slots \ {r} : reqs'[o] = reqs[o]]_vars

\* a client's request beyond the limit has been rejected while the other
\* client is still served
C8_Witness ==
    /\ resp.code = 429
    /\ \E c, d \in Clients :
          /\ arrived[c] = max + 1
          /\ handled[c] = max
          /\ d # c
          /\ arrived[d] > 0
          /\ handled[d] = arrived[d]

\* C9: while the last response is one of /health, hfReady equals the outcome
\* of that request: true with 200 {status, summary}, false with 500
\* {status: 'error', error}.
C9_HealthSetsFlag ==
    resp.route = "health" =>
       \/ /\ resp.code = 200
          /\ resp.keys = {"status", "summary"}
          /\ resp.status = "ok"
          /\ hfReady
       \/ /\ resp.code = 500
          /\ resp.keys = {"status", "error"}
          /\ resp.status = "error"
          /\ ~ hfReady

\* a health check has completed
C9_Witness == resp.route = "health" /\ resp.code = 200 /\ hfReady

\* C10: when the article fetch of a /summarize request fails, the request
\* responds 500 with error and details, has issued no inference call, and
\* leaves the cache as it was.
C10_FetchFailure ==
    [][\A r \in Slots, out \in FetchOutcomes :
          (FetchReturn(r, out) /\ out.kind = "error")
             => /\ Over(r)
                /\ resp'.route = "summarize"
                /\ resp'.url = reqs[r].url
                /\ resp'.code = 500
                /\ resp'.keys = {"error", "details"}
                /\ resp'.details = out.message
                /\ resp'.ops = <<"cache.get", "axios.get">>
                /\ UNCHANGED <<data, written>>]_vars

\* a request whose fetch failed has been answered 500
C10_Witness ==
    /\ resp.route = "summarize"
    /\ resp.code = 500
    /\ resp.details = "timeout of 10000ms exceeded"
    /\ resp.ops = <<"cache.get", "axios.get">>

\* the /summarize request of slot r, awaiting its article fetch or its
\* inference call before the step, is over after it
Completes(r) ==
    reqs[r].route = "summarize" /\ reqs[r].pc # "idle" /\ Over(r)

\* C11: a /summarize request that responds 200 without a cache hit has
\* performed exactly one cache write, which leaves as the only entry of the
\* request's URL the summary of the response and leaves the entries of other
\* URLs alone; a request served from the cache or answered 429, 503 or 500
\* has performed none, and no other step adds or changes a cache entry.
C11_OneCacheWrite ==
    [][/\ \A r \in Slots :
             (Completes(r) /\ resp'.code = 200)
                => /\ resp'.url = reqs[r].url
                   /\ Count(resp'.ops, "cache.set") = 1
                   /\ {e \in data' : e.k = reqs[r].url}
                         = {[k |-> reqs[r].url, v |-> resp'.summary,
                             t |-> now + stdTTL * 1000]}
                   /\ {e \in data' : e.k # reqs[r].url}
                         = {e \in data : e.k # reqs[r].url}
       /\ \A r \in Slots :
             (Completes(r) /\ resp'.code # 200)
                => resp'.code = 500 /\ Count(resp'.ops, "cache.set") = 0
       /\ \A r \in Slots, c \in Clients, u \in URLs :
             (SummarizeStart(r, c, u) /\ Over(r))
                => /\ resp'.code \in {200, 429, 503}
                   /\ Count(resp'.ops, "cache.set") = 0
       /\ (~ \E r \in Slots : Completes(r) /\ resp'.code = 200)
             => data' \subseteq data /\ written' = written]_vars

\* a request has answered with the model's summary and cached it under its
\* URL
C11_Witness ==
    /\ resp.route = "summarize"
    /\ resp.code = 200
    /\ resp.summary = ModelSummary
    /\ Count(resp.ops, "cache.set") = 1
    /\ {e.v : e \in {x \in data : x.k = resp.url}} = {ModelSummary}
    /\ \E r \in Slots : reqs[r].route = "summarize" /\ reqs[r].url # resp.url

\* C12: every outbound call completes or fails after its timeout, so every
\* request in flight (to /summarize, /health or /api/news) is eventually
\* answered, even when the service it calls never answers.
C12_EveryRequestAnswered ==
    \A r \in Slots : (reqs[r].pc # "idle") ~> (reqs[r].pc = "idle")

\* C13: summarizeWithHF, called with a text that is absent or shorter than 50
\* characters, returns the literal TooShortLiteral as a normal result and
\* issues no POST; called with a longer text it issues exactly one POST, and
\* when the POST settles it returns summary_text of the first result, or
\* throws: the caller of /summarize then answers with the fallback summary
\* and the caller of /health with 500, never with a string the function
\* returned.
C13_InferenceClient ==
    [][/\ \A r \in Slots, out \in FetchOutcomes :
             (FetchReturn(r, out) /\ out.kind = "string")
                => IF Len(Extracted[out.data]) < 50
                   THEN /\ Over(r)
                        /\ resp'.code = 200
                        /\ resp'.summary = TooShortLiteral
                        /\ Count(resp'.ops, "axios.post") = 0
                   ELSE /\ reqs'[r].pc = "inferring"
                        /\ reqs'[r].text = Extracted[out.data]
                        /\ Count(reqs'[r].ops, "axios.post") = 1
       /\ \A r \in Slots :
             HealthStart(r)
                => IF Len(WarmupText) < 50
                   THEN /\ Over(r)
                        /\ resp'.code = 200
                        /\ resp'.summary = TooShortLiteral
                        /\ Count(resp'.ops, "axios.post") = 0
                   ELSE /\ reqs'[r].pc = "inferring"
                        /\ Count(reqs'[r].ops, "axios.post") = 1
       /\ \A r \in Slots, out \in HFOutcomes :
             HFReturn(r, out)
                => /\ Over(r)
                   /\ Count(resp'.ops, "axios.post") = 1
                   /\ IF ~ HFFailed(out)
                      THEN resp'.code = 200 /\ resp'.summary = out.summary_text
                      ELSE IF reqs[r].route = "health"
                      THEN resp'.code = 500 /\ resp'.summary = << >>
                      ELSE /\ resp'.code = 200
                           /\ resp'.summary = Fallback[reqs[r].text]]_vars

\* one request has been answered with the literal without a POST while
\* another, with a longer text, awaits its one POST
C13_Witness ==
    /\ resp.route = "summarize"
    /\ resp.code = 200
    /\ resp.summary = TooShortLiteral
    /\ resp.ops = <<"cache.get", "axios.get", "cache.set">>
    /\ \E r \in Slots :
          /\ reqs[r].pc = "inferring"
          /\ Len(reqs[r].text) >= 50
          /\ Count(reqs[r].ops, "axios.post") = 1

\* C14: no request re-issues an outbound call.  A /summarize request has
\* issued at most one article fetch and at most one inference call, a
\* /health request at most one inference call and a /api/news request
\* exactly one upstream call, at every moment and when it responds; and the
\* step in which a call of a request fails, or the inference call or the
\* upstream call settles, issues no further call of that request.
C14_NoRetries ==
    /\ [](/\ \A r \in Slots :
               /\ reqs[r].route = "summarize"
                     => /\ Count(reqs[r].ops, "axios.get") <= 1
                        /\ Count(reqs[r].ops, "axios.post") <= 1
               /\ reqs[r].route = "health"
                     => /\ Count(reqs[r].ops, "axios.get") = 0
                        /\ Count(reqs[r].ops, "axios.post") <= 1
               /\ reqs[r].route = "news"
                     => /\ Count(reqs[r].ops, "axios.get") = 1
                        /\ Count(reqs[r].ops, "axios.post") = 0
          /\ resp.route = "summarize"
                => /\ Count(resp.ops, "axios.get") <= 1
                   /\ Count(resp.ops, "axios.post") <= 1
          /\ resp.route = "health"
                => /\ Count(resp.ops, "axios.get") = 0
                   /\ Count(resp.ops, "axios.post") <= 1
          /\ resp.route = "news"
                => /\ Count(resp.ops, "axios.get") = 1
                   /\ Count(resp.ops, "axios.post") = 0)
    /\ [][/\ \A r \in Slots, out \in FetchOutcomes :
                (FetchReturn(r, out) /\ out.kind # "string")
                   => Over(r) /\ resp'.ops = reqs[r].ops
          /\ \A r \in Slots, out \in HFOutcomes :
                HFReturn(r, out)
                   => /\ Over(r)
                      /\ Count(resp'.ops, "axios.post") = 1
                      /\ Count(resp'.ops, "axios.get")
                            = Count(reqs[r].ops, "axios.get")
          /\ \A r \in Slots, out \in NewsOutcomes :
                NewsReturn(r, out)
                   => Over(r) /\ resp'.ops = <<"axios.get">>]_vars

\* a /api/news request whose one upstream call failed has been answered 500
\* while a /summarize request has issued its one fetch and its one inference
\* call
C14_Witness ==
    /\ resp.route = "news"
    /\ resp.code = 500
    /\ resp.ops = <<"axios.get">>
    /\ \E r \in Slots :
          /\ reqs[r].route = "summarize"
          /\ reqs[r].pc = "inferring"
          /\ Count(reqs[r].ops, "axios.get") = 1
          /\ Count(reqs[r].ops, "axios.post") = 1

\* How the provider reads the URL it is sent: the query string stands
\* between the first "?" and the first "#", its pieces are separated by "&",
\* and in each piece the name stands before the first "=" and the value
\* behind it.
RECURSIVE SplitOn(_, _, _)
SplitOn(s, start, c) ==
    LET a == FirstChar(s, start, c)
    IN  IF a = 0 THEN <<SubSeq(s, start, Len(s))>>
        ELSE <<SubSeq(s, start, a - 1)>> \o SplitOn(s, a + 1, c)

QueryString(url) ==
    LET q == FirstChar(url, 1, "?")
        h == FirstChar(url, q + 1, "#")
    IN  IF q = 0 THEN << >>
        ELSE SubSeq(url, q + 1, IF h = 0 THEN Len(url) ELSE h - 1)

Parameters(url) ==
    LET pieces == SplitOn(QueryString(url), 1, "&")
    IN  [i \in 1..Len(pieces) |->
           LET e == FirstChar(pieces[i], 1, "=")
           IN  IF e = 0 THEN [name |-> pieces[i], value |-> << >>]
               ELSE [name |-> SubSeq(pieces[i], 1, e - 1),
                     value |-> SubSeq(pieces[i], e + 1, Len(pieces[i]))]]

\* the names of the parameters, as they are written in a URL
NameText ==
    [country |-> <<"c", "o", "u", "n", "t", "r", "y">>,
     category |-> <<"c", "a", "t", "e", "g", "o", "r", "y">>,
     page |-> <<"p", "a", "g", "e">>,
     pageSize |-> <<"p", "a", "g", "e", "S", "i", "z", "e">>,
     apiKey |-> <<"a", "p", "i", "K", "e", "y">>]

\* C15: a GET /api/news request that gives the four parameters sends the
\* provider exactly five parameters: country, category, page and pageSize
\* with the values the client gave, and apiKey with the server's credential.
\* It answers 200 with the body the provider sent, or 500 with an error
\* field when the call fails, and leaves the cache and hfReady unchanged.
C15_NewsRelay ==
    [][/\ \A r \in Slots, query \in Queries :
             (NewsStart(r, query) /\ DOMAIN query = QueryNames)
                => /\ Len(Parameters(reqs'[r].sent)) = 5
                   /\ Range(Parameters(reqs'[r].sent))
                         = {[name |-> NameText[n], value |-> query[n]] :
                               n \in QueryNames}
                           \cup {[name |-> NameText.apiKey,
                                  value |-> NEWS_API_KEY]}
                   /\ UNCHANGED <<data, hfReady>>
       /\ \A r \in Slots, out \in NewsOutcomes :
             NewsReturn(r, out)
                => /\ Over(r)
                   /\ IF out.kind = "data"
                      THEN resp'.code = 200 /\ resp'.body = out.data
                      ELSE resp'.code = 500 /\ "error" \in resp'.keys
                   /\ UNCHANGED <<data, hfReady>>]_vars

\* the step belongs to a GET /health request: the request arrives, or its
\* inference call settles
HealthStep ==
    \E r \in Slots :
       \/ HealthStart(r)
       \/ reqs[r].route = "health" /\ \E out \in HFOutcomes : HFReturn(r, out)

\* C16: hfReady changes only in a step of a GET /health request.  No step of
\* a /summarize request (arrival, fetch settled, inference call settled, with
\* whatever outcome), of a /api/news request or of a root request changes it,
\* nor does the passing of time.
C16_ReadinessFrame ==
    [][/\ (hfReady' # hfReady) => HealthStep
       /\ \A r \in Slots :
             (\/ \E c \in Clients, u \in URLs : SummarizeStart(r, c, u)
              \/ \E out \in FetchOutcomes : FetchReturn(r, out)
              \/ reqs[r].route = "summarize"
                    /\ \E out \in HFOutcomes : HFReturn(r, out)
              \/ \E query \in Queries : NewsStart(r, query)
              \/ \E out \in NewsOutcomes : NewsReturn(r, out)
              \/ Root(r))
                => hfReady' = hfReady
       /\ Tick => hfReady' = hfReady]_vars

\* the flag is still true after a /summarize request whose inference call
\* failed, with a /api/news request in flight
C16_Witness ==
    /\ hfReady
    /\ resp.route = "summarize"
    /\ resp.code = 200
    /\ Count(resp.ops, "axios.post") = 1
    /\ resp.summary = Fallback[Extracted[PageLong]]
    /\ \E r \in Slots : reqs[r].route = "news"

\* C17: for any HTML input the output of extractMainText has at most 1024
\* characters and holds no "<" and no ">".
C17_ExtractorOutput ==
    (call.fn = "extractMainText" /\ call.done)
       => /\ Len(call.ret) <= 1024
          /\ "<" \notin Range(call.ret)
          /\ ">" \notin Range(call.ret)

\* the positions of the white space characters that end a sentence of s
Breaks(s) == {i \in 1..Len(s) : SentenceBreak(s, i)}

\* C18: fallbackSummary with the default count.  An empty text gives the
\* literal NoContentLiteral.  A text of at most 3 sentences (at most 2
\* sentence breaks) is returned as it is.  A text of more sentences gives
\* its first 3 sentences joined by single spaces: the text before its third
\* break, with a space in place of the white space at the first two breaks.
C18_FallbackSummarizer ==
    (call.fn = "fallbackSummary" /\ call.done)
       => LET text == call.arg
              B == Breaks(text)
          IN  IF text = << >> THEN call.ret = NoContentLiteral
              ELSE IF Cardinality(B) + 1 <= 3 THEN call.ret = text
              ELSE LET third ==
                           CHOOSE b \in B : Cardinality({x \in B : x < b}) = 2
                   IN  call.ret = [i \in 1..(third - 1) |->
                                      IF i \in B THEN " " ELSE text[i]]

\* a text of more than 3 sentences, with a line end between two of them and
\* an abbreviation inside one, has been cut to its first 3
C18_Witness ==
    /\ call.fn = "fallbackSummary"
    /\ call.done
    /\ Cardinality(Breaks(call.arg)) = 3
    /\ \E i \in Breaks(call.arg) : call.arg[i] = "\n" /\ i < Len(call.ret)
    /\ \E i \in 1..Len(call.ret) :
          call.arg[i] = " " /\ i > 3 /\ call.arg[i - 1] = "."
             /\ i \notin Breaks(call.arg)
    /\ Len(call.ret) < Len(call.arg)
    /\ call.arg[Len(call.arg)] = "a"

\* C19: every value /summarize has written to the cache is a non-empty
\* summary, so the test of line 90 takes every live entry for a hit; and the
\* inference call, whose failure leads to the fallback, is issued only with
\* an extracted text of at least 50 characters.
C19_CachedValuesTruthy ==
    /\ \A e \in data : e.v # << >>
    /\ \A u \in URLs :
          /\ written[u].has => written[u].v # << >>
          /\ LiveEntry(u) => CacheHit(CacheGet(u))
    /\ \A r \in Slots :
          (reqs[r].route = "summarize" /\ reqs[r].pc = "inferring")
             => Len(reqs[r].text) >= 50

\* the cache holds the literal for a short page under one URL and a fallback
\* summary under the other
C19_Witness ==
    \E e1, e2 \in data :
       /\ e1.k # e2.k
       /\ e1.v = TooShortLiteral
       /\ e2.v = Fallback[Extracted[PageLong]]
       /\ CacheHit(CacheGet(e1.k))
       /\ CacheHit(CacheGet(e2.k))

\* C20: under every interleaving of /summarize requests, those for one
\* uncached URL that each miss the cache included: the cache holds at most
\* one entry per URL; a request that ends 200 after its own fetch answers
\* with a summary of the text it extracted itself (the too-short literal, the
\* summary the API gave to its own call, or the fallback summary of its
\* text), writes it under its own URL, and touches neither the entries of
\* other URLs nor the other request in flight; the cache is written in no
\* other step; and a cache hit answers with the entry of the request's own
\* URL, which is the summary of the last such write for that URL.
C20_ConcurrentSummarize ==
    /\ [](\A e1, e2 \in data : e1.k = e2.k => e1 = e2)
    /\ [][/\ \A r \in Slots, c \in Clients, u \in URLs :
                (SummarizeStart(r, c, u) /\ Over(r) /\ resp'.code = 200)
                   => /\ resp'.url = u
                      /\ \E e \in data : e.k = u /\ e.v = resp'.summary
                      /\ written[u].has
                      /\ written[u].v = resp'.summary
          /\ \A r \in Slots :
                (Completes(r) /\ resp'.code = 200)
                   => /\ resp'.url = reqs[r].url
                      /\ \E e \in data' :
                            e.k = reqs[r].url /\ e.v = resp'.summary
                      /\ written'[reqs[r].url].v = resp'.summary
                      /\ \A u \in URLs \ {reqs[r].url} :
                            /\ written'[u] = written[u]
                            /\ {e \in data' : e.k = u} = {e \in data : e.k = u}
                      /\ \A o \in Slots \ {r} : reqs'[o] = reqs[o]
          /\ \A r \in Slots, out \in FetchOutcomes :
                (FetchReturn(r, out) /\ Over(r) /\ resp'.code = 200)
                   => resp'.summary = TooShortLiteral
          /\ \A r \in Slots, out \in HFOutcomes :
                (HFReturn(r, out) /\ reqs[r].route = "summarize")
                   => resp'.summary
                         = IF HFFailed(out) THEN fallbackSummary(reqs[r].text)
                           ELSE out.summary_text
          /\ (written' # written \/ ~ (data' \subseteq data))
                => \E r \in Slots : Completes(r) /\ resp'.code = 200]_vars

\* two requests for one uncached URL both missed the cache; one of them has
\* completed and written its summary, a third request has been served that
\* summary from the cache, and the other of the two is still awaiting its
\* inference call
C20_Witness ==
    /\ now = 0
    /\ resp.route = "summarize"
    /\ resp.code = 200
    /\ resp.ops = <<"cache.get">>
    /\ resp.summary = written[resp.url].v
    /\ \E r \in Slots :
          /\ reqs[r].route = "summarize"
          /\ reqs[r].url = resp.url
          /\ reqs[r].pc = "inferring"

=============================================================================
